---- MODULE Spec2Model ----
(***************************************************************************)
(* Model of the SOX index dashboard: the indicator engine of               *)
(* sox_dashboard.py (load_data and its cache), the historical loaders of   *)
(* app.py and dashboard/daily_report.py, the callbacks that consume them,  *)
(* load_data under concurrent calls, and the collector sox_collector.py    *)
(* that appends the rows.                                                  *)
(*                                                                         *)
(* Numbers.  The code computes in IEEE doubles.  The model computes in     *)
(* exact rationals extended with NaN and +/-infinity: a value is a record  *)
(* [k, n, d] with k = "num" (the reduced fraction n/d, d > 0), "nan" or    *)
(* "inf" (n = 1 or -1).  Rounding error of the doubles is not modelled.    *)
(* Sequences are 1-based: position i of the model is pandas position i-1.  *)
(***************************************************************************)
EXTENDS Integers, Sequences, FiniteSets, TLC

VARIABLES
    csv,         \* CSV_FILE of sox_dashboard.py: [exists, rows]
    data_cache,  \* the module-level data_cache: [df, last_load_time]
    now,         \* wall clock, in seconds
    ret,         \* what the last load_data call returned
    hist,        \* data/historical of app.py: [exists, files]
    hret,        \* what the last load_historical_data / load_today_data call returned
    page,        \* what the last callback rendered
    report_log,  \* data/daily_report.log: the reports appended so far
    chart,       \* a call of filter_data_by_period or resample_data and its result
    persisted,   \* history: the rows CSV_FILE held when data_cache was last written
    tick,        \* history: the last refresh tick, the file it started on, the series it showed
    series,      \* a current_value column (input of the rolling statistics)
    roll,        \* the rolling statistics computed over series
    last_call,   \* history: the arguments and the cache the last whole load_data call started with
    threads,     \* the load_data calls in progress, one per server thread
    collector    \* a run of sox_collector.py: its clock, the scraper output, what main did

vars == <<csv, data_cache, now, ret, hist, hret, page, report_log, chart, persisted, tick,
          series, roll, last_call, threads, collector>>

----------------------------------------------------------------------------
(* Floating-point values as exact rationals with NaN and infinities *)

Abs(x) == IF x < 0 THEN -x ELSE x

RECURSIVE Gcd(_, _)
Gcd(a, b) == IF b = 0 THEN a ELSE Gcd(b, a % b)

NaN == [k |-> "nan", n |-> 0, d |-> 1]
PosInf == [k |-> "inf", n |-> 1, d |-> 1]
NegInf == [k |-> "inf", n |-> -1, d |-> 1]

\* the float n/d (d # 0), reduced
Frac(n, d) ==
    LET g == Gcd(Abs(n), Abs(d))
        s == IF d < 0 THEN -1 ELSE 1
    IN  [k |-> "num", n |-> (s * n) \div g, d |-> (s * d) \div g]

Flt(i) == Frac(i, 1)

IsNum(a) == a.k = "num"
IsInf(a) == a.k = "inf"
IsNaN(a) == a.k = "nan"
Sign(a) == IF a.n > 0 THEN 1 ELSE IF a.n < 0 THEN -1 ELSE 0

Lcm(a, b) == (a \div Gcd(a, b)) * b

FNeg(a) == IF IsNaN(a) THEN NaN ELSE [a EXCEPT !.n = -a.n]

FAdd(a, b) ==
    CASE IsNaN(a) \/ IsNaN(b) -> NaN
      [] IsInf(a) /\ IsInf(b) -> IF a.n = b.n THEN a ELSE NaN
      [] IsInf(a) -> a
      [] IsInf(b) -> b
      [] OTHER -> LET l == Lcm(a.d, b.d)
                  IN  Frac(a.n * (l \div a.d) + b.n * (l \div b.d), l)

FSub(a, b) == FAdd(a, FNeg(b))

FMul(a, b) ==
    CASE IsNaN(a) \/ IsNaN(b) -> NaN
      [] IsInf(a) \/ IsInf(b) ->
            IF Sign(a) * Sign(b) = 0 THEN NaN
            ELSE IF Sign(a) * Sign(b) > 0 THEN PosInf ELSE NegInf
      [] OTHER -> LET g1 == Gcd(Abs(a.n), b.d)
                      g2 == Gcd(Abs(b.n), a.d)
                  IN  Frac((a.n \div g1) * (b.n \div g2), (a.d \div g2) * (b.d \div g1))

\* IEEE division: x/0 is +/-inf, 0/0 is NaN, x/inf is 0, inf/inf is NaN
FDiv(a, b) ==
    CASE IsNaN(a) \/ IsNaN(b) -> NaN
      [] IsInf(a) /\ IsInf(b) -> NaN
      [] IsInf(a) -> IF Sign(b) < 0 THEN FNeg(a) ELSE a
      [] IsInf(b) -> Flt(0)
      [] b.n = 0 -> IF a.n = 0 THEN NaN ELSE IF a.n > 0 THEN PosInf ELSE NegInf
      [] OTHER -> FMul(a, Frac(b.d, b.n))

\* a <= b on floats; any comparison with NaN is false
FLe(a, b) ==
    CASE IsNaN(a) \/ IsNaN(b) -> FALSE
      [] IsInf(a) -> a.n < 0 \/ (IsInf(b) /\ b.n > 0)
      [] IsInf(b) -> b.n > 0
      [] OTHER -> LET l == Lcm(a.d, b.d)
                  IN  a.n * (l \div a.d) <= b.n * (l \div b.d)

----------------------------------------------------------------------------
(* Series.rolling(window).mean(): min_periods defaults to the window, so the  *)
(* mean is NaN until `window` observations are in the window.  The sum is    *)
(* split in halves to keep the evaluation shallow.                           *)

RECURSIVE Sum(_, _, _)
Sum(xs, lo, hi) ==
    IF lo > hi THEN 0
    ELSE IF lo = hi THEN xs[lo]
    ELSE LET mid == (lo + hi) \div 2
         IN  Sum(xs, lo, mid) + Sum(xs, mid + 1, hi)

\* the mean with min_periods=1: defined from the first position
RollingMeanMinPeriods1(xs, window) ==
    [i \in 1..Len(xs) |->
        LET nobs == IF i > window THEN window ELSE i
        IN  Frac(Sum(xs, i - nobs + 1, i), nobs)]

RollingMean(xs, window) ==
    [i \in 1..Len(xs) |->
        LET nobs == IF i > window THEN window ELSE i
        IN  IF nobs >= window THEN Frac(Sum(xs, i - nobs + 1, i), nobs) ELSE NaN]

----------------------------------------------------------------------------
(* Rolling statistics of load_data: moving averages and RSI *)

Window20 == 20
Window50 == 50
Window200 == 200
RsiWindow == 14

\* Series.diff(): undefined at the first position
Diff(xs) == [i \in 1..Len(xs) |-> IF i = 1 THEN NaN ELSE Flt(xs[i] - xs[i - 1])]

\* delta.where(delta > 0, 0): a NaN delta fails the test and becomes 0
GainInput(xs) ==
    LET delta == Diff(xs)
    IN  [i \in 1..Len(xs) |-> IF IsNum(delta[i]) /\ delta[i].n > 0 THEN delta[i].n ELSE 0]

\* the losses without the leading minus
LossInputNotNegated(xs) ==
    LET delta == Diff(xs)
    IN  [i \in 1..Len(xs) |-> IF IsNum(delta[i]) /\ delta[i].n < 0 THEN delta[i].n ELSE 0]

\* -delta.where(delta < 0, 0)
LossInput(xs) ==
    LET delta == Diff(xs)
    IN  [i \in 1..Len(xs) |-> -(IF IsNum(delta[i]) /\ delta[i].n < 0 THEN delta[i].n ELSE 0)]

AvgGain(xs) == RollingMean(GainInput(xs), RsiWindow)
AvgLoss(xs) == RollingMean(LossInput(xs), RsiWindow)

\* rs = gain / loss; rsi = 100 - (100 / (1 + rs))
RsiValue(gain, loss) ==
    FSub(Flt(100), FDiv(Flt(100), FAdd(Flt(1), FDiv(gain, loss))))

Rsi(xs) ==
    LET gain == AvgGain(xs)
        loss == AvgLoss(xs)
    IN  [i \in 1..Len(xs) |-> RsiValue(gain[i], loss[i])]

NoRoll == [done |-> FALSE, ma20 |-> <<>>, ma50 |-> <<>>, ma200 |-> <<>>, rsi |-> <<>>]

RollingIndicators(xs) ==
    [done |-> TRUE,
     ma20 |-> RollingMean(xs, Window20),
     ma50 |-> RollingMean(xs, Window50),
     ma200 |-> RollingMean(xs, Window200),
     rsi |-> Rsi(xs)]

----------------------------------------------------------------------------
(* Exponential moving averages of load_data: ewm(span, adjust=False).mean() *)

Span12 == 12
Span26 == 26
SignalSpan == 9

\* alpha taken as 1 / span
AlphaInverseSpan(span) == Frac(1, span)

\* alpha = 2 / (span + 1)
Alpha(span) == Frac(2, span + 1)

\* one step of pandas' ewm loop with adjust=False: old_wt = 1 - alpha, new_wt = alpha
EwmStep(weighted, cur, span) ==
    LET old_wt == FSub(Flt(1), Alpha(span))
        new_wt == Alpha(span)
    IN  IF weighted = cur THEN weighted
        ELSE FDiv(FAdd(FMul(old_wt, weighted), FMul(new_wt, cur)), FAdd(old_wt, new_wt))

\* the loop of ewm over the positions lo..hi, weighted being the value at lo - 1
\* (the first value of the series seeds the loop); halves are computed in turn
RECURSIVE EwmRange(_, _, _, _, _)
EwmRange(xs, span, lo, hi, weighted) ==
    IF lo = hi
    THEN <<IF lo = 1 THEN xs[1] ELSE EwmStep(weighted, xs[lo], span)>>
    ELSE LET mid == (lo + hi) \div 2
             left == EwmRange(xs, span, lo, mid, weighted)
         IN  left \o EwmRange(xs, span, mid + 1, hi, left[Len(left)])

Ewm(xs, span) == IF Len(xs) = 0 THEN <<>> ELSE EwmRange(xs, span, 1, Len(xs), xs[1])

----------------------------------------------------------------------------
(* The CSV file and its ingestion by load_data *)

MinutesPerDay == 24 * 60
MarketOpen == 9 * 60 + 30     \* datetime.time(9, 30)
MarketClose == 16 * 60    \* datetime.time(16, 0)

\* A cell of the file: k = "ok" (text that parses, value v), "na" (empty) or
\* "bad" (text that does not parse as a date / as a number).
Cell(k, v) == [k |-> k, v |-> v]

RawRow(date, time, current_value) ==
    [date |-> date, time |-> time, current_value |-> current_value]

\* df.dropna(subset=['date', 'current_value'])
DropNa(rows) == SelectSeq(rows, LAMBDA r : r.date.k # "na" /\ r.current_value.k # "na")

\* pd.to_datetime(date + ' ' + time, errors='coerce'): NaT when the text does not parse
ParsesDatetime(r) == r.date.k = "ok" /\ r.time.k = "ok"
ToDatetime(r) == r.date.v * MinutesPerDay + r.time.v

\* df['datetime'].dt.time.between(time(9, 30), time(16, 0)): false for NaT
InMarketHours(r) ==
    ParsesDatetime(r) /\ MarketOpen <= r.time.v /\ r.time.v <= MarketClose

MarketHoursFilter(rows) == SelectSeq(rows, InMarketHours)

\* an ingestion that keeps the last row of the file only
IngestLastRow(rows) ==
    IF rows = <<>> THEN <<>>
    ELSE MarketHoursFilter(DropNa(<<rows[Len(rows)]>>))

\* the rows the indicators are computed over (lines 106-113): file order is kept
Ingest(rows) == MarketHoursFilter(DropNa(rows))

\* read_csv leaves a column holding a non-numeric text as strings, and
\* rolling(...).mean() raises on it
RollingRaises(rows) == \E i \in 1..Len(rows) : rows[i].current_value.k = "bad"

DateOf(datetime) == datetime \div MinutesPerDay

\* groupby(date)['current_value'].transform('first'): first row of the group, in row order
FirstOfDate(rows, i) ==
    CHOOSE j \in 1..i :
        /\ DateOf(ToDatetime(rows[j])) = DateOf(ToDatetime(rows[i]))
        /\ \A h \in 1..(j - 1) : DateOf(ToDatetime(rows[h])) # DateOf(ToDatetime(rows[i]))

\* the previous row of the same group (0 when i is the first row of its group)
PrevOfDate(rows, i) ==
    LET same == {j \in 1..(i - 1) : DateOf(ToDatetime(rows[j])) = DateOf(ToDatetime(rows[i]))}
    IN  IF same = {} THEN 0 ELSE CHOOSE j \in same : \A h \in same : h <= j

DayOpen(rows) ==
    [i \in 1..Len(rows) |-> Flt(rows[FirstOfDate(rows, i)].current_value.v)]

\* groupby(date)['current_value'].pct_change(): x / x.shift(1) - 1 within the group
DailyReturn(rows) ==
    [i \in 1..Len(rows) |->
        LET p == PrevOfDate(rows, i)
        IN  IF p = 0 THEN NaN
            ELSE FSub(FDiv(Flt(rows[i].current_value.v), Flt(rows[p].current_value.v)), Flt(1))]

\* rolling(20).std() and the Bollinger bands need a square root: below the window
\* they are NaN, above it they are carried as the symbolic value "sqrt"
RollingStd(xs, window) ==
    [i \in 1..Len(xs) |-> IF i >= window THEN [k |-> "sqrt", n |-> i, d |-> 1] ELSE NaN]

Band(ma, std, sign) ==
    IF IsNaN(ma) \/ IsNaN(std) THEN NaN ELSE [k |-> "band", n |-> std.n, d |-> sign]

ToFloats(xs) == [i \in 1..Len(xs) |-> Flt(xs[i])]

\* lines 116-143: the annotated frame, one record per row
Annotate(rows) ==
    LET x == [i \in 1..Len(rows) |-> rows[i].current_value.v]
        ind == RollingIndicators(x)
        std == RollingStd(x, Window20)
        ema12 == Ewm(ToFloats(x), Span12)
        ema26 == Ewm(ToFloats(x), Span26)
        macd == [i \in 1..Len(rows) |-> FSub(ema12[i], ema26[i])]
        macd_signal == Ewm(macd, SignalSpan)
        day_open == DayOpen(rows)
        daily_return == DailyReturn(rows)
    IN  [i \in 1..Len(rows) |->
            [datetime |-> ToDatetime(rows[i]),
             current_value |-> x[i],
             ma20 |-> ind.ma20[i], ma50 |-> ind.ma50[i], ma200 |-> ind.ma200[i],
             rolling_std |-> std[i],
             upper_band |-> Band(ind.ma20[i], std[i], 1),
             lower_band |-> Band(ind.ma20[i], std[i], -1),
             rsi |-> ind.rsi[i],
             ema12 |-> ema12[i], ema26 |-> ema26[i],
             macd |-> macd[i], macd_signal |-> macd_signal[i],
             macd_hist |-> FSub(macd[i], macd_signal[i]),
             day_open |-> day_open[i], daily_return |-> daily_return[i]]]

----------------------------------------------------------------------------
(* load_data and its cache *)

CacheSeconds == 300

None(empty) == [some |-> FALSE, val |-> empty]
Some(v) == [some |-> TRUE, val |-> v]

EmptyCache == [df |-> None(<<>>), last_load_time |-> None(0)]

\* a file is its header line (present or not) and the rows below it
NoFile == [exists |-> FALSE, header |-> FALSE, rows |-> <<>>]
File(rows) == [exists |-> TRUE, header |-> TRUE, rows |-> rows]

\* a return value of a loader: the frame, the branch that produced it, and
\* whether the file (or directory) existed when the call was made
Returned(df, from, exists) == [called |-> TRUE, df |-> df, from |-> from, exists |-> exists]
NotCalled == [called |-> FALSE, df |-> <<>>, from |-> "none", exists |-> FALSE]

\* what a callback rendered from the loader result r: the texts shown, the
\* branch of the loader, and whether the source existed when it was called
Rendered(callback, out, r) ==
    [callback |-> callback, out |-> out, from |-> r.from, exists |-> r.exists]
NoPage == [callback |-> "none", out |-> <<>>, from |-> "none", exists |-> FALSE]

\* no call of filter_data_by_period or resample_data was made
NoChart == [op |-> "none", df |-> <<>>, arg |-> "none", current_time |-> 0,
            done |-> FALSE, out |-> <<>>]

\* no refresh tick happened
NoTick == [called |-> FALSE, file |-> <<>>, shown |-> <<>>, from |-> "none", loaded |-> <<>>]

\* no load_data call was made
NoCall == [called |-> FALSE, force_reload |-> FALSE, cache |-> EmptyCache, current_time |-> 0]

\* a load_data call: its argument, the cache it found and the time it read at line 95
Called(force_reload) ==
    [called |-> TRUE, force_reload |-> force_reload, cache |-> data_cache, current_time |-> now]

\* a cache test that still answers at an age of CacheSeconds
CacheIsFreshInclusive(force_reload, cache, current_time) ==
    /\ ~force_reload
    /\ cache.df.some
    /\ cache.last_load_time.some
    /\ current_time - cache.last_load_time.val <= CacheSeconds

\* lines 98-101
CacheIsFresh(force_reload, cache, current_time) ==
    /\ ~force_reload
    /\ cache.df.some
    /\ cache.last_load_time.some
    /\ current_time - cache.last_load_time.val < CacheSeconds

\* lines 94-156: the value returned
LoadDataResult(force_reload, cache, file, current_time) ==
    IF CacheIsFresh(force_reload, cache, current_time)
    THEN Returned(cache.df.val, "cache", file.exists)
    ELSE IF ~file.exists THEN Returned(<<>>, "missing", FALSE)
    ELSE IF RollingRaises(Ingest(file.rows)) THEN Returned(<<>>, "error", TRUE)
    ELSE Returned(Annotate(Ingest(file.rows)), "file", TRUE)

\* a load_data that empties the cache when the reload fails
LoadDataCacheClearedOnFailure(force_reload, cache, file, current_time) ==
    LET r == LoadDataResult(force_reload, cache, file, current_time)
    IN  IF r.from = "file"
        THEN [df |-> Some(r.df), last_load_time |-> Some(current_time)]
        ELSE IF r.from = "cache" THEN cache
        ELSE EmptyCache

\* lines 146-147: the cache is written only when the file was read and annotated
LoadDataCache(force_reload, cache, file, current_time) ==
    LET r == LoadDataResult(force_reload, cache, file, current_time)
    IN  IF r.from = "file"
        THEN [df |-> Some(r.df), last_load_time |-> Some(current_time)]
        ELSE cache

\* history: the rows of the file as of the last write of the cache (lines 146-147
\* are reached when the cache does not answer, the file exists and nothing raises)
Persisted(force_reload) ==
    IF /\ ~CacheIsFresh(force_reload, data_cache, now)
       /\ csv.exists
       /\ ~RollingRaises(Ingest(csv.rows))
    THEN csv.rows
    ELSE persisted

LoadData(force_reload) ==
    /\ ret' = LoadDataResult(force_reload, data_cache, csv, now)
    /\ data_cache' = LoadDataCache(force_reload, data_cache, csv, now)
    /\ persisted' = Persisted(force_reload)
    /\ last_call' = Called(force_reload)
    /\ UNCHANGED <<threads, collector, csv, now, hist, hret, page, report_log, chart, tick, series, roll>>

\* the wall clock advances between calls
MaxClock == 300
ClockStep == 150

Tick ==
    /\ now + ClockStep <= MaxClock
    /\ now' = now + ClockStep
    /\ UNCHANGED <<last_call, threads, collector, csv, data_cache, ret, hist, hret, page, report_log, chart, persisted, tick, series, roll>>

MaxFileRows == 2

\* the header line read back as a row: three texts that are neither dates nor numbers
HeaderRow == RawRow(Cell("bad", 0), Cell("bad", 0), Cell("bad", 0))

\* a save_to_csv that writes the header on every call
WrittenHeaderEveryCall(file, data) ==
    [exists |-> TRUE, header |-> TRUE,
     rows |-> IF file.exists THEN file.rows \o <<HeaderRow, data>> ELSE <<data>>]

\* sox_collector.py lines 84-92: the file after save_to_csv(data); the file is
\* opened for appending, the header is written when the file was absent
Written(file, data) ==
    IF file.exists
    THEN [file EXCEPT !.rows = Append(file.rows, data)]
    ELSE [exists |-> TRUE, header |-> TRUE, rows |-> <<data>>]

\* sox_collector.py lines 76-94: save_to_csv appends one row to the file and
\* creates the file when it is absent; files grow to MaxFileRows rows here
SaveToCsv(data) ==
    /\ Len(csv.rows) < MaxFileRows
    /\ csv' = Written(csv, data)
    /\ UNCHANGED <<last_call, threads, collector, data_cache, now, ret, hist, hret, page, report_log, chart, persisted, tick,
                   series, roll>>

\* the file is deleted from outside
RemoveFile ==
    /\ csv.exists
    /\ csv' = NoFile
    /\ UNCHANGED <<last_call, threads, collector, data_cache, now, ret, hist, hret, page, report_log, chart, persisted, tick, series, roll>>

----------------------------------------------------------------------------
(* sox_collector.py: one run of main.  The clock is the US/Eastern wall      *)
(* clock, a day number (day 1 is a Monday) and a second of that day; the     *)
(* date and the time of the row are taken from the same clock.  The scraper  *)
(* output is the text the patterns of lines 44-52 see: what follows          *)
(* 'Latest Trade: ' and what follows 'Change: ', when present.               *)

SecondsPerHour == 60 * 60
SecondsPerMinute == SecondsPerHour \div 60

Weekday(day) == (day - 1) % 7

\* a market test that forgets the weekend
IsMarketOpenEveryDay(day, second) ==
    /\ MarketOpen * SecondsPerMinute <= second
    /\ second <= MarketClose * SecondsPerMinute

\* lines 10-26
IsMarketOpen(day, second) ==
    IF Weekday(day) >= 5 THEN FALSE
    ELSE /\ MarketOpen * SecondsPerMinute <= second
         /\ second <= MarketClose * SecondsPerMinute

Digits == {"0", "1", "2", "3", "4", "5", "6", "7", "8", "9"}

DigitValue(c) ==
    CASE c = "0" -> 0 [] c = "1" -> 1 [] c = "2" -> 2 [] c = "3" -> 3 [] c = "4" -> 4
      [] c = "5" -> 5 [] c = "6" -> 6 [] c = "7" -> 7 [] c = "8" -> 8 [] c = "9" -> 9

\* text.replace(',', '')
RemoveCommas(text) == SelectSeq(text, LAMBDA c : c # ",")

\* float(text) succeeds on digits with at most one point and at least one digit
IsFloatText(text) ==
    /\ \A i \in 1..Len(text) : text[i] \in Digits \cup {"."}
    /\ Cardinality({i \in 1..Len(text) : text[i] = "."}) <= 1
    /\ \E i \in 1..Len(text) : text[i] \in Digits

RECURSIVE IntOf(_)
IntOf(digits) ==
    IF digits = <<>> THEN 0
    ELSE IntOf(SubSeq(digits, 1, Len(digits) - 1)) * 10 + DigitValue(digits[Len(digits)])

RECURSIVE Pow10(_)
Pow10(k) == IF k = 0 THEN 1 ELSE 10 * Pow10(k - 1)

\* float(text) of a text float() accepts
FloatOf(text) ==
    LET point == {i \in 1..Len(text) : text[i] = "."}
        decimals == IF point = {} THEN 0 ELSE Len(text) - (CHOOSE i \in point : TRUE)
    IN  Frac(IntOf(SelectSeq(text, LAMBDA c : c # ".")), Pow10(decimals))

\* the scraper output: None (line 35), the empty text, or a text
NoOutput == [kind |-> "none", latest |-> None(<<>>), change |-> None(<<>>)]
EmptyOutput == [kind |-> "empty", latest |-> None(<<>>), change |-> None(<<>>)]
Output(latest, change) == [kind |-> "text", latest |-> latest, change |-> change]

\* lines 105: "if bash_output"
Truthy(output) == output.kind = "text"

\* lines 54-72: float() raises ValueError on a captured text that is no number
ParseRaises(output) ==
    \/ output.latest.some /\ ~IsFloatText(RemoveCommas(output.latest.val))
    \/ output.change.some /\ ~IsFloatText(RemoveCommas(output.change.val))

\* lines 37-74: the dictionary returned; a key whose pattern did not match is absent
ParseBashOutput(output, day, second) ==
    [date |-> day,
     time |-> second \div SecondsPerMinute,
     current_value |-> IF output.latest.some
                       THEN Some(FloatOf(RemoveCommas(output.latest.val))) ELSE None(NaN),
     change_amount |-> IF output.change.some
                       THEN Some(FloatOf(RemoveCommas(output.change.val))) ELSE None(NaN)]

\* line 92: DictWriter writes the empty text for a key the dictionary lacks,
\* which reads back as a missing value
RowOf(data) ==
    RawRow(Cell("ok", data.date), Cell("ok", data.time),
           IF data.current_value.some THEN Cell("ok", data.current_value.val) ELSE Cell("na", 0))

\* no run of the collector was made
NoCollector ==
    [ran |-> FALSE, day |-> 0, second |-> 0, output |-> NoOutput, scraped |-> FALSE,
     result |-> "none", before |-> NoFile, origin |-> NoFile, written |-> <<>>]

\* lines 96-111: what main did.  closed: line 100; no_output: line 111;
\* raised: parse_bash_output raised at line 106; saved: line 107 ran and the
\* prints followed; saved_then_raised: line 107 ran and line 109 raised KeyError
MainResult(day, second, output) ==
    IF ~IsMarketOpen(day, second) THEN "closed"
    ELSE IF ~Truthy(output) THEN "no_output"
    ELSE IF ParseRaises(output) THEN "raised"
    ELSE IF output.latest.some /\ output.change.some THEN "saved"
    ELSE "saved_then_raised"

\* lines 96-111, on the clock and the scraper output of this run
Main(day, second, output) ==
    LET result == MainResult(day, second, output)
        saves == result \in {"saved", "saved_then_raised"}
        row == RowOf(ParseBashOutput(output, day, second))
    IN  /\ saves => Len(csv.rows) < MaxFileRows
        /\ csv' = IF saves THEN Written(csv, row) ELSE csv
        /\ collector' = [ran |-> TRUE, day |-> day, second |-> second, output |-> output,
                         scraped |-> IsMarketOpen(day, second),
                         result |-> result,
                         before |-> csv,
                         origin |-> IF collector.ran THEN collector.origin ELSE csv,
                         written |-> IF saves THEN Append(collector.written, row)
                                     ELSE collector.written]
        /\ UNCHANGED <<last_call, threads, data_cache, now, ret, hist, hret, page,
                       report_log, chart, persisted, tick, series, roll>>

----------------------------------------------------------------------------
(* load_data called from several server threads at once: the callbacks       *)
(* update_metrics and update_chart_content are both triggered by every       *)
(* refresh tick and the server of line 762 handles each request in a thread  *)
(* of its own.  A call is cut into the steps between which another thread    *)
(* can run: the cache test of lines 98-100, the return of line 101, the      *)
(* computation of lines 103-143, the store of line 146 and that of line 147. *)

Threads == {1, 2}

Idle == [pc |-> "idle", force_reload |-> FALSE, current_time |-> 0, rows |-> <<>>,
         df |-> <<>>, before |-> EmptyCache]

NoThreads == [t \in Threads |-> Idle]

\* line 95: the call reads the clock
StartLoad(t, force_reload) ==
    /\ threads[t].pc = "idle"
    /\ threads' = [threads EXCEPT ![t] = [Idle EXCEPT !.pc = "test",
                                                      !.force_reload = force_reload,
                                                      !.current_time = now]]
    /\ UNCHANGED <<last_call, collector, csv, data_cache, now, ret, hist, hret, page,
                   report_log, chart, persisted, tick, series, roll>>

\* lines 98-100: both entries of data_cache are read
TestCache(t) ==
    /\ threads[t].pc = "test"
    /\ threads' = [threads EXCEPT ![t].pc =
                       IF CacheIsFresh(threads[t].force_reload, data_cache, threads[t].current_time)
                       THEN "hit" ELSE "read"]
    /\ UNCHANGED <<last_call, collector, csv, data_cache, now, ret, hist, hret, page,
                   report_log, chart, persisted, tick, series, roll>>

\* line 101: data_cache['df'] is read again and returned
ReturnCached(t) ==
    /\ threads[t].pc = "hit"
    /\ ret' = Returned(data_cache.df.val, "cache", csv.exists)
    /\ threads' = [threads EXCEPT ![t] = Idle]
    /\ UNCHANGED <<last_call, collector, csv, data_cache, now, hist, hret, page,
                   report_log, chart, persisted, tick, series, roll>>

\* lines 103-143, and the returns of lines 152 and 155
ReadFile(t) ==
    /\ threads[t].pc = "read"
    /\ IF csv.exists /\ ~RollingRaises(Ingest(csv.rows))
       THEN /\ threads' = [threads EXCEPT ![t].pc = "store_df",
                                          ![t].rows = csv.rows,
                                          ![t].df = Annotate(Ingest(csv.rows))]
            /\ ret' = ret
       ELSE /\ threads' = [threads EXCEPT ![t] = Idle]
            /\ ret' = Returned(<<>>, IF csv.exists THEN "error" ELSE "missing", csv.exists)
    /\ UNCHANGED <<last_call, collector, csv, data_cache, now, hist, hret, page,
                   report_log, chart, persisted, tick, series, roll>>

\* line 146: data_cache['df'] = df
StoreDf(t) ==
    /\ threads[t].pc = "store_df"
    /\ data_cache' = [data_cache EXCEPT !.df = Some(threads[t].df)]
    /\ persisted' = threads[t].rows
    /\ threads' = [threads EXCEPT ![t].pc = "store_time", ![t].before = data_cache]
    /\ UNCHANGED <<last_call, collector, csv, now, ret, hist, hret, page,
                   report_log, chart, tick, series, roll>>

\* lines 147-150: data_cache['last_load_time'] = current_time, then the return
StoreTime(t) ==
    /\ threads[t].pc = "store_time"
    /\ data_cache' = [data_cache EXCEPT !.last_load_time = Some(threads[t].current_time)]
    /\ ret' = Returned(threads[t].df, "file", TRUE)
    /\ threads' = [threads EXCEPT ![t] = Idle]
    /\ UNCHANGED <<last_call, collector, csv, now, hist, hret, page,
                   report_log, chart, persisted, tick, series, roll>>

----------------------------------------------------------------------------
(* app.py: load_historical_data over the directory data/historical *)

TodayCsv == "sox_index_today.csv"
CsvNames == {TodayCsv, "sox_index_old.csv"}

HistRow(timestamp, last_price) == [timestamp |-> timestamp, last_price |-> last_price]
HistFile(name, rows) == [name |-> name, rows |-> rows]

NoDir == [exists |-> FALSE, files |-> <<>>]
Dir(files) == [exists |-> TRUE, files |-> files]

\* f.endswith('.csv')
IsCsv(f) == f.name \in CsvNames

\* pd.concat(dataframes, ignore_index=True): the rows of the files, in os.listdir order
RECURSIVE Concat(_)
Concat(files) ==
    IF files = <<>> THEN <<>> ELSE Head(files).rows \o Concat(Tail(files))

\* pd.to_datetime(df['timestamp']) without errors='coerce' raises on a text that does not parse
ToDatetimeRaises(rows) == \E i \in 1..Len(rows) : rows[i].timestamp.k # "ok"

Parsed(rows) ==
    [i \in 1..Len(rows) |-> [timestamp |-> rows[i].timestamp.v, last_price |-> rows[i].last_price]]

IndexOrders(n) == {p \in [1..n -> 1..n] : \A i, j \in 1..n : p[i] = p[j] => i = j}

\* sort_values('timestamp') with the default kind='quicksort', which is not
\* stable: the outcomes are the orders that are ascending by timestamp, rows of
\* equal timestamp in any order
SortValues(rows) ==
    {[i \in 1..Len(rows) |-> rows[p[i]]] : p \in
        {q \in IndexOrders(Len(rows)) :
            \A i, j \in 1..Len(rows) :
                i < j => rows[q[i]].timestamp <= rows[q[j]].timestamp}}

\* drop_duplicates('timestamp', keep='last')
DropDuplicatesLast(rows) ==
    LET keep == {i \in 1..Len(rows) :
                    \A j \in (i + 1)..Len(rows) : rows[j].timestamp # rows[i].timestamp}
        Nth(k) == CHOOSE i \in keep : Cardinality({j \in keep : j <= i}) = k
    IN  [k \in 1..Cardinality(keep) |-> rows[Nth(k)]]

\* pd.read_csv raises EmptyDataError on a file without any line
ReadCsvRaises(files) == \E i \in 1..Len(files) : files[i].rows = <<>>

\* a call that propagated an exception returned nothing
Raised(exists) == Returned(<<>>, "raise", exists)

\* the loader without the test of line 14: os.listdir raises on an absent directory
LoadHistoricalOutcomesNoDirCheck(dir) ==
    LET all_files == SelectSeq(dir.files, IsCsv)
        combined == Concat(all_files)
    IN  IF ~dir.exists THEN {Raised(FALSE)}
        ELSE IF all_files = <<>> THEN {Returned(<<>>, "nofiles", TRUE)}
        ELSE IF ReadCsvRaises(all_files) \/ ToDatetimeRaises(combined) THEN {Raised(TRUE)}
        ELSE {Returned(DropDuplicatesLast(twice), "files", TRUE) :
                 twice \in UNION {SortValues(once) : once \in SortValues(Parsed(combined))}}

\* lines 12-34: the frames the call can return
LoadHistoricalOutcomes(dir) ==
    IF ~dir.exists THEN {Returned(<<>>, "missing", FALSE)}
    ELSE LET all_files == SelectSeq(dir.files, IsCsv)
             combined == Concat(all_files)
         IN  IF all_files = <<>> THEN {Returned(<<>>, "nofiles", TRUE)}
             ELSE IF ReadCsvRaises(all_files) \/ ToDatetimeRaises(combined) THEN {Raised(TRUE)}
             ELSE {Returned(DropDuplicatesLast(twice), "files", TRUE) :
                      twice \in UNION {SortValues(once) : once \in SortValues(Parsed(combined))}}

LoadHistoricalData ==
    /\ \E r \in LoadHistoricalOutcomes(hist) : hret' = r
    /\ UNCHANGED <<last_call, threads, collector, hist, page, report_log, chart, persisted, tick, csv, data_cache, now, ret, series, roll>>

----------------------------------------------------------------------------
(* The callbacks of sox_dashboard.py.  A rendered page is modelled by the    *)
(* texts that tell the no-data outputs from the others; figures are not      *)
(* modelled.                                                                 *)

Tabs == {"trend-tab", "candle-tab", "technical-tab", "performance-tab"}
\* the periods of the enumeration; the dropdown of lines 289-294 offers all but "1Y"
Periods == {"Today", "1D", "1W", "1M", "3M", "1Y", "All"}
Intervals == {"5min", "15min", "30min", "1hour", "1day"}

\* lines 401-425: df.iloc[-2] of line 413 is evaluated before len(df) > 1 is tested
MetricsOf(df) ==
    IF df = <<>> THEN <<"N/A">>
    ELSE IF Len(df) = 1 THEN <<"IndexError">>
    ELSE <<"metrics">>

UpdateMetrics ==
    LET r == LoadDataResult(FALSE, data_cache, csv, now)
    IN  /\ ret' = r
        /\ data_cache' = LoadDataCache(FALSE, data_cache, csv, now)
        /\ page' = Rendered("update_metrics", MetricsOf(r.df), r)
        /\ persisted' = Persisted(FALSE)
        /\ tick' = [called |-> TRUE, file |-> csv.rows, shown |-> r.df, from |-> r.from,
                    loaded |-> IF r.from \in {"file", "cache"} THEN Persisted(FALSE) ELSE <<>>]
        /\ last_call' = Called(FALSE)
        /\ UNCHANGED <<threads, collector, csv, now, hist, hret, report_log, chart, series, roll>>

\* lines 624-625: create_candlestick_chart adds the column dummy_volume to the
\* frame it is given (its random values are not modelled)
AddDummyVolume(df) ==
    [i \in 1..Len(df) |->
        [f \in DOMAIN df[i] \cup {"dummy_volume"} |->
            IF f = "dummy_volume" THEN "random" ELSE df[i][f]]]

\* the chart is drawn on the very frame load_data returned when the period
\* filter returns its argument (line 447) and no resampling copies it (line 356)
DrawsOnLoadedFrame(tab_value, period_value, interval_value) ==
    tab_value = "candle-tab" /\ period_value = "All" /\ interval_value = "5min"

\* lines 347-382, for any tab, period and interval the page can send
UpdateChartContent ==
    LET r == LoadDataResult(FALSE, data_cache, csv, now)
        cache == LoadDataCache(FALSE, data_cache, csv, now)
        drawn == [cache EXCEPT !.df = Some(AddDummyVolume(r.df))]
        read == Persisted(FALSE)
    IN  \E tab_value \in Tabs :
          \E draws_on_loaded \in
                {DrawsOnLoadedFrame(tab_value, period_value, interval_value) :
                    period_value \in Periods, interval_value \in Intervals} :
            /\ ret' = r
            /\ data_cache' = IF r.df # <<>> /\ draws_on_loaded THEN drawn ELSE cache
            /\ page' = Rendered("update_chart_content",
                                IF r.df = <<>> THEN <<"No data available">> ELSE <<tab_value>>, r)
            /\ persisted' = read
            /\ last_call' = Called(FALSE)
            /\ UNCHANGED <<threads, collector, csv, now, hist, hret, report_log, chart, tick, series, roll>>

----------------------------------------------------------------------------
(* filter_data_by_period.  Timestamps and "now" are in minutes, as in        *)
(* ToDatetime.                                                               *)

\* df.tail(100) of line 454
TailRows == 100

\* the tail in reversed order
TailReversed(df, n) ==
    LET len == IF Len(df) < n THEN Len(df) ELSE n
    IN  [i \in 1..len |-> df[Len(df) - i + 1]]

\* df.tail(n): the last n rows, all of them when there are fewer
TailOf(df, n) ==
    LET len == IF Len(df) < n THEN Len(df) ELSE n
    IN  SubSeq(df, Len(df) - len + 1, Len(df))

\* lines 437-449: the Timedelta of a period; "1Y" has no branch of its own and
\* takes the final else
PeriodDelta(period) ==
    CASE period = "1D" -> 1 * MinutesPerDay
      [] period = "1W" -> 7 * MinutesPerDay
      [] period = "1M" -> 30 * MinutesPerDay
      [] period = "3M" -> 90 * MinutesPerDay
      [] OTHER -> 1 * MinutesPerDay

\* lines 428-456
FilterDataByPeriod(df, period, current_time) ==
    IF df = <<>> THEN df
    ELSE IF period = "Today"
    THEN SelectSeq(df, LAMBDA row : DateOf(row.datetime) = DateOf(current_time))
    ELSE IF period = "All" THEN df
    ELSE LET start_time == current_time - PeriodDelta(period)
             filtered_df == SelectSeq(df, LAMBDA row : row.datetime >= start_time)
         IN  IF filtered_df = <<>> THEN TailOf(df, TailRows) ELSE filtered_df

\* one call of filter_data_by_period on the frame, period and time of chart
FilterData ==
    /\ chart.op = "filter"
    /\ ~chart.done
    /\ chart' = [chart EXCEPT !.done = TRUE,
                              !.out = FilterDataByPeriod(chart.df, chart.arg, chart.current_time)]
    /\ UNCHANGED <<last_call, threads, collector, csv, data_cache, now, ret, hist, hret, page, report_log, persisted, tick,
                   series, roll>>

----------------------------------------------------------------------------
(* app.py: generate_daily_report and update_dashboard *)

SecondsPerDay == MinutesPerDay * 60

\* datetime.now().date() and timestamp.dt.date, as day numbers
Today(current_time) == current_time \div SecondsPerDay
HistDate(timestamp) == timestamp \div MinutesPerDay

\* app.py lines 36-71, given the frame its load_historical_data call returned
GenerateDailyReport(df, current_time) ==
    LET daily_data == SelectSeq(df, LAMBDA row : HistDate(row.timestamp) = Today(current_time))
    IN  IF df = <<>> THEN "N/A"
        ELSE IF daily_data = <<>> THEN "N/A"
        ELSE "report"

\* app.py lines 113-149: the data is loaded once for the metrics and once more
\* by generate_daily_report
UpdateDashboard ==
    \E first \in LoadHistoricalOutcomes(hist), second \in LoadHistoricalOutcomes(hist) :
        /\ hret' = IF first.from = "raise" THEN first ELSE second
        /\ page' = Rendered("update_dashboard",
                            IF first.from = "raise" \/ second.from = "raise" THEN <<"raise">>
                            ELSE <<IF first.df = <<>> THEN "N/A" ELSE "metrics",
                                   GenerateDailyReport(second.df, now)>>,
                            first)
        /\ UNCHANGED <<last_call, threads, collector, hist, report_log, chart, persisted, tick, csv, data_cache, now, ret, series, roll>>

----------------------------------------------------------------------------
(* dashboard/daily_report.py *)

\* lines 7-16
LoadTodayResult(dir) ==
    LET today == SelectSeq(dir.files, LAMBDA f : f.name = TodayCsv)
    IN  IF ~dir.exists \/ today = <<>> THEN Returned(<<>>, "missing", FALSE)
        ELSE IF ReadCsvRaises(today) \/ ToDatetimeRaises(today[1].rows) THEN Raised(TRUE)
        ELSE Returned(Parsed(today[1].rows), "today", TRUE)

LoadTodayData ==
    /\ hret' = LoadTodayResult(hist)
    /\ UNCHANGED <<last_call, threads, collector, hist, page, report_log, chart, persisted, tick, csv, data_cache, now, ret, series, roll>>

Max(S) == CHOOSE x \in S : \A y \in S : y <= x
Min(S) == CHOOSE x \in S : \A y \in S : x <= y

\* lines 18-32, for a frame that is not empty
GenerateReport(df, current_time) ==
    LET last_price == {df[i].last_price : i \in 1..Len(df)}
    IN  [Date |-> Today(current_time),
         OpenPrice |-> df[1].last_price,
         ClosePrice |-> df[Len(df)].last_price,
         MaxPrice |-> Max(last_price),
         MinPrice |-> Min(last_price),
         DataPoints |-> Len(df)]

MaxReports == 2

\* lines 42-50; the log grows by one report per run, at most MaxReports here
DailyReportMain ==
    LET r == LoadTodayResult(hist)
    IN  /\ r.df # <<>> => Len(report_log) < MaxReports
        /\ hret' = r
        /\ page' = Rendered("daily_report.main",
                            IF r.from = "raise" THEN <<"raise">>
                            ELSE IF r.df = <<>> THEN <<"No data available for today.">>
                            ELSE <<"Daily report saved.">>,
                            r)
        /\ report_log' = IF r.df = <<>> THEN report_log
                         ELSE Append(report_log, GenerateReport(r.df, now))
        /\ UNCHANGED <<last_call, threads, collector, hist, csv, data_cache, now, ret, chart, persisted, tick, series, roll>>

----------------------------------------------------------------------------
(* resample_data.  A frame with an index is a sequence of [index, cols].    *)

\* a row without the column col
Without(row, col) == [c \in DOMAIN row \ {col} |-> row[c]]

\* df.set_index(col): the column becomes the index
SetIndex(df, col) == [i \in 1..Len(df) |-> [index |-> df[i][col], cols |-> Without(df[i], col)]]

\* reset_index(drop=True): the index is thrown away
ResetIndexDrop(frame, name) == [i \in 1..Len(frame) |-> frame[i].cols]

\* reset_index(): the index goes back into a column of its name
ResetIndex(frame, name) ==
    [i \in 1..Len(frame) |->
        [c \in DOMAIN frame[i].cols \cup {name} |->
            IF c = name THEN frame[i].index ELSE frame[i].cols[c]]]

\* lines 468-475: the width of the buckets of a rule, in minutes (0: no rule)
RuleMinutes(interval) ==
    CASE interval = "15min" -> 15
      [] interval = "30min" -> 30
      [] interval = "1hour" -> 60
      [] interval = "1day" -> MinutesPerDay
      [] OTHER -> 0

\* resample sorts a frame whose index is not ascending, by a stable sort
SortIndex(frame) ==
    LET Rank(i) == Cardinality({j \in 1..Len(frame) :
                        \/ frame[j].index < frame[i].index
                        \/ (frame[j].index = frame[i].index /\ j <= i)})
    IN  [k \in 1..Len(frame) |-> frame[CHOOSE i \in 1..Len(frame) : Rank(i) = k]]

\* the starts of the buckets: aligned to midnight, closed on the left, one for
\* every multiple of the width from the bucket of the first sample to that of the last
BucketStart(index, width) == (index \div width) * width

Buckets(frame, width) ==
    LET sorted == SortIndex(frame)
        first == BucketStart(sorted[1].index, width)
        last == BucketStart(sorted[Len(sorted)].index, width)
    IN  [k \in 1..((last - first) \div width + 1) |-> first + (k - 1) * width]

\* the rows of a bucket, in index order
InBucket(frame, start, width) ==
    SelectSeq(SortIndex(frame), LAMBDA r : start <= r.index /\ r.index < start + width)

\* ohlc() of the values of a bucket: NaN in all four when the bucket is empty
Ohlc(values) ==
    IF values = <<>> THEN [open |-> NaN, high |-> NaN, low |-> NaN, close |-> NaN]
    ELSE [open |-> Flt(values[1]),
          high |-> Flt(Max({values[i] : i \in 1..Len(values)})),
          low |-> Flt(Min({values[i] : i \in 1..Len(values)})),
          close |-> Flt(values[Len(values)])]

\* last() of the values of a bucket: the last one that is not NaN, NaN when there is none
LastValid(values) ==
    LET valid == SelectSeq(values, LAMBDA v : ~IsNaN(v))
    IN  IF valid = <<>> THEN NaN ELSE valid[Len(valid)]

\* lines 485-502: the columns carried into the resampled frame
CarriedColumns ==
    {"ma20", "ma50", "ma200", "upper_band", "lower_band", "rsi", "macd", "macd_signal",
     "macd_hist"}

\* lines 481-513: one row per bucket
Resampled(frame, width) ==
    LET starts == Buckets(frame, width)
        carried == CarriedColumns \cap DOMAIN frame[1].cols
    IN  [k \in 1..Len(starts) |->
            LET rows == InBucket(frame, starts[k], width)
                ohlc == Ohlc([i \in 1..Len(rows) |-> rows[i].cols.current_value])
            IN  [c \in {"datetime", "open_value", "day_high", "day_low", "current_value"}
                        \cup carried |->
                    CASE c = "datetime" -> starts[k]
                      [] c = "open_value" -> ohlc.open
                      [] c = "day_high" -> ohlc.high
                      [] c = "day_low" -> ohlc.low
                      [] c = "current_value" -> ohlc.close
                      [] OTHER -> LastValid([i \in 1..Len(rows) |-> rows[i].cols[c]])]]

\* lines 459-515
ResampleData(df, interval) ==
    IF df = <<>> THEN df
    ELSE LET df_copy == SetIndex(df, "datetime")
         IN  IF RuleMinutes(interval) = 0 THEN ResetIndex(df_copy, "datetime")
             ELSE Resampled(df_copy, RuleMinutes(interval))

\* one call of resample_data on the frame and interval of chart
Resample ==
    /\ chart.op = "resample"
    /\ ~chart.done
    /\ chart' = [chart EXCEPT !.done = TRUE, !.out = ResampleData(chart.df, chart.arg)]
    /\ UNCHANGED <<last_call, threads, collector, csv, data_cache, now, ret, hist, hret, page, report_log, persisted, tick,
                   series, roll>>

----------------------------------------------------------------------------
(* Inputs of the engine: files of at most MaxRows rows, one defect per row *)

MaxRows == 2
Prices == {1, 2}

\* (day, minute of day): 09:29, 09:30 and 16:00 of day 1, 09:30 and 16:01 of day 2
Stamps == {<<1, 569>>, <<1, 570>>, <<1, 960>>, <<2, 570>>, <<2, 961>>}

GoodRows ==
    {RawRow(Cell("ok", s[1]), Cell("ok", s[2]), Cell("ok", v)) : s \in Stamps, v \in Prices}

MalformedRows ==
    {RawRow(Cell("na", 0), Cell("ok", 570), Cell("ok", 1)),     \* no date
     RawRow(Cell("bad", 0), Cell("ok", 570), Cell("ok", 1)),    \* a date that does not parse
     RawRow(Cell("ok", 1), Cell("ok", 570), Cell("na", 0)),     \* no price
     RawRow(Cell("ok", 1), Cell("ok", 570), Cell("bad", 0))}    \* a price that is not a number

RowKinds == GoodRows \cup MalformedRows

SeqsUpTo(S, n) == UNION {[1..m -> S] : m \in 0..n}

Files == {NoFile} \cup {File(rows) : rows \in SeqsUpTo(RowKinds, MaxRows)}

Init ==
    /\ csv \in Files
    /\ data_cache = EmptyCache
    /\ now = 0
    /\ ret = NotCalled
    /\ hist = NoDir
    /\ hret = NotCalled
    /\ page = NoPage
    /\ report_log = <<>>
    /\ chart = NoChart
    /\ persisted = <<>>
    /\ tick = NoTick
    /\ series = <<>>
    /\ roll = NoRoll
    /\ last_call = NoCall
    /\ threads = NoThreads
    /\ collector = NoCollector

Next ==
    \/ \E force_reload \in BOOLEAN : LoadData(force_reload)
    \/ Tick
    \/ RemoveFile

Spec == Init /\ [][Next]_vars

\* the last call found a series in the cache, less than CacheSeconds old, and
\* was not forced to reload
AnsweredFromCache ==
    /\ ~last_call.force_reload
    /\ last_call.cache.df.some
    /\ last_call.current_time - last_call.cache.last_load_time.val < CacheSeconds

\* C24: load_data returns the cached series without reading the file exactly
\* when it is not forced and the cache holds a series loaded less than 300
\* seconds before; otherwise it reads the file again and, when that succeeds,
\* stores the new series with the time the call started.
C24_CacheAgeRule ==
    last_call.called =>
        /\ ret.from = "cache" <=> AnsweredFromCache
        /\ AnsweredFromCache => (ret.df = last_call.cache.df.val /\ data_cache = last_call.cache)
        /\ ~AnsweredFromCache => ret.from \in {"file", "missing", "error"}
        /\ ret.from = "file" =>
              data_cache = [df |-> Some(ret.df),
                            last_load_time |-> Some(last_call.current_time)]

\* a call that is not forced finds a series exactly CacheSeconds old and reloads
C24_Witness ==
    /\ last_call.called /\ ~last_call.force_reload
    /\ last_call.cache.df.some
    /\ last_call.current_time - last_call.cache.last_load_time.val = CacheSeconds
    /\ ret.from = "file"
    /\ data_cache.last_load_time = Some(last_call.current_time)
    /\ data_cache # last_call.cache

\* the last call read the file again and failed
ReloadFailed == last_call.called /\ ret.from \in {"missing", "error"}

----------------------------------------------------------------------------
(* The rolling statistics over long series: the series are drawn from a few  *)
(* shapes, of every length up to MaxLen                                      *)

MaxLen == 201

Shapes == {"flat", "up", "down", "rally", "saw", "step"}

ShapePrice(shape, i) ==
    CASE shape = "flat" -> 100
      [] shape = "up" -> 99 + i
      [] shape = "down" -> 400 - i
      [] shape = "rally" -> IF i <= 15 THEN 99 + i ELSE 100 + 3 * (i % 2)
      [] shape = "saw" -> 100 + ((7 * i) % 5)
      [] shape = "step" -> IF i <= 3 THEN 100 + i ELSE 103

ShapeSeries(shape, len) == [i \in 1..len |-> ShapePrice(shape, i)]

InitRoll ==
    /\ series \in {ShapeSeries(shape, len) : shape \in Shapes, len \in 0..MaxLen}
    /\ roll = NoRoll
    /\ last_call = NoCall
    /\ threads = NoThreads
    /\ collector = NoCollector
    /\ csv = NoFile
    /\ data_cache = EmptyCache
    /\ now = 0
    /\ ret = NotCalled
    /\ hist = NoDir
    /\ hret = NotCalled
    /\ page = NoPage
    /\ report_log = <<>>
    /\ chart = NoChart
    /\ persisted = <<>>
    /\ tick = NoTick

\* lines 116-130 applied to the current_value column
ComputeRolling ==
    /\ ~roll.done
    /\ roll' = RollingIndicators(series)
    /\ UNCHANGED <<last_call, threads, collector, series, csv, data_cache, now, ret, hist, hret, page, report_log, chart, persisted, tick>>

NextRoll == ComputeRolling

SpecRoll == InitRoll /\ [][NextRoll]_vars

----------------------------------------------------------------------------
(* Claims about the rolling statistics, under SpecRoll *)

\* col is the mean of the n latest values of series, by position
MaIsWindowMean(col, n) ==
    /\ Len(col) = Len(series)
    /\ \A i \in 1..Len(series) :
          IF i < n THEN IsNaN(col[i])
          ELSE IsNum(col[i]) /\ col[i].n * n = col[i].d * Sum(series, i - n + 1, i)

\* C5: for N in {20, 50, 200}, maN is undefined at every position before the
\* N-th sample, and from the N-th sample on it is the arithmetic mean of the N
\* latest values counted by position; the values 100..119 give ma20 = 109.5 at
\* the 20th sample and undefined at the 19th.
C5_MovingAverages ==
    roll.done =>
        /\ MaIsWindowMean(roll.ma20, 20)
        /\ MaIsWindowMean(roll.ma50, 50)
        /\ MaIsWindowMean(roll.ma200, 200)
        /\ (series = [i \in 1..20 |-> 99 + i]) =>
              (roll.ma20[20] = Frac(219, 2) /\ IsNaN(roll.ma20[19]))

C5_Witness ==
    /\ roll.done
    /\ Len(series) >= 200
    /\ series[1] # series[2]
    /\ IsNum(roll.ma200[200]) /\ IsNum(roll.ma50[200]) /\ IsNum(roll.ma20[200])

\* C6: rsi is undefined at each of the first 14 samples of the series.
C6_RsiUndefinedFirst14 ==
    roll.done => \A i \in 1..Len(series) : i <= 14 => IsNaN(roll.rsi[i])

\* C7: at a sample with 14 samples of history whose trailing 14 changes hold no
\* loss (a flat window included), rsi is defined and equals 100.
C7_RsiSaturatesAt100 ==
    roll.done =>
        \A i \in 1..Len(series) :
            (i > 14 /\ \A j \in (i - 13)..i : series[j] >= series[j - 1])
                => roll.rsi[i] = Flt(100)

\* C8: every defined rsi is a finite number between 0 and 100.
C8_RsiBounds ==
    roll.done =>
        \A i \in 1..Len(series) :
            ~IsNaN(roll.rsi[i]) =>
                /\ IsNum(roll.rsi[i])
                /\ FLe(Flt(0), roll.rsi[i])
                /\ FLe(roll.rsi[i], Flt(100))

C8_Witness ==
    /\ roll.done
    /\ \E i \in 1..Len(series) :
          /\ IsNum(roll.rsi[i])
          /\ roll.rsi[i] # Flt(0)
          /\ roll.rsi[i] # Flt(100)
    /\ \E i \in 1..Len(series) : roll.rsi[i] = Flt(100)
    /\ \E i \in 1..Len(series) : IsNaN(roll.rsi[i])

----------------------------------------------------------------------------
(* Claims about load_data, under Spec *)

\* the frame load_data computed from the file in this call
Loaded == ret.called /\ ret.from = "file"

\* C2: the series the indicators are computed over is sorted ascending by
\* timestamp and holds no two rows with the same timestamp, whatever the order
\* and duplication of the rows of the file.
C2_SortedAndUnique ==
    Loaded =>
        \A i, j \in 1..Len(ret.df) : i < j => ret.df[i].datetime < ret.df[j].datetime

WellFormed(r) == r.date.k = "ok" /\ r.time.k = "ok" /\ r.current_value.k = "ok"

Sample(datetime, current_value) == [datetime |-> datetime, current_value |-> current_value]

\* the well-formed rows of the file that lie in market hours, in file order
WellFormedSamples(rows) ==
    LET kept == SelectSeq(rows, LAMBDA r : WellFormed(r) /\ InMarketHours(r))
    IN  [i \in 1..Len(kept) |-> Sample(ToDatetime(kept[i]), kept[i].current_value.v)]

SamplesOf(df) == [i \in 1..Len(df) |-> Sample(df[i].datetime, df[i].current_value)]

\* C3: reading a file that holds malformed rows (a timestamp that does not
\* parse, a price that is absent or not a number) raises no error and loses no
\* well-formed row: the loaded series is the well-formed rows of the file
\* (stated here for the rows within market hours) and none of the malformed.
C3_DropsExactlyMalformed ==
    (ret.called /\ ret.from \in {"file", "error"}) =>
        /\ ret.from = "file"
        /\ SamplesOf(ret.df) = WellFormedSamples(csv.rows)

\* a[i] = alpha * x[i] + (1 - alpha) * a[i-1] with alpha = num / den
IsEma(a, x, num, den) ==
    \A i \in 1..Len(x) :
        /\ IsNum(a[i])
        /\ IF i = 1 THEN a[1] = x[1]
           ELSE FMul(Flt(den), a[i]) = FAdd(FMul(Flt(num), x[i]), FMul(Flt(den - num), a[i - 1]))

Column(df, name) == [i \in 1..Len(df) |-> df[i][name]]

C10_DayOpenAndDailyReturn ==
    Loaded =>
        LET df == ret.df
            SameDate(i, j) == DateOf(df[i].datetime) = DateOf(df[j].datetime)
        IN  \A i \in 1..Len(df) :
              /\ \E j \in 1..Len(df) :
                    /\ SameDate(i, j)
                    /\ \A h \in 1..Len(df) : SameDate(i, h) => df[j].datetime <= df[h].datetime
                    /\ df[i].day_open = Flt(df[j].current_value)
              /\ IsNaN(df[i].daily_return) <=> (\A h \in 1..(i - 1) : ~SameDate(i, h))
              /\ \A p \in 1..(i - 1) :
                    (SameDate(i, p) /\ \A h \in (p + 1)..(i - 1) : ~SameDate(i, h))
                        => FMul(df[i].daily_return, Flt(df[p].current_value))
                              = Flt(df[i].current_value - df[p].current_value)

----------------------------------------------------------------------------
(* load_historical_data alone: directories of one or two CSV files holding   *)
(* at most MaxHistRows rows together                                          *)

MaxHistRows == 3

HistRowKinds ==
    {HistRow(Cell("ok", t), v) : t \in {570, 575}, v \in {100, 105}}
        \cup {HistRow(Cell("bad", 0), 100)}

\* the rows split over two files after the first `cut` rows (one file when cut = 0)
SplitDir(rows, cut) ==
    IF cut = 0 THEN Dir(<<HistFile("sox_index_old.csv", rows)>>)
    ELSE Dir(<<HistFile("sox_index_old.csv", SubSeq(rows, 1, cut)),
               HistFile(TodayCsv, SubSeq(rows, cut + 1, Len(rows)))>>)

HistDirs ==
    {NoDir, Dir(<<>>), Dir(<<HistFile("README", <<>>)>>), Dir(<<HistFile(TodayCsv, <<>>)>>)}
        \cup UNION {{SplitDir(rows, cut) : cut \in 0..(Len(rows) - 1)} :
                        rows \in SeqsUpTo(HistRowKinds, MaxHistRows) \ {<<>>}}

InitHist ==
    /\ hist \in HistDirs
    /\ hret = NotCalled
    /\ page = NoPage
    /\ report_log = <<>>
    /\ chart = NoChart
    /\ persisted = <<>>
    /\ tick = NoTick
    /\ csv = NoFile
    /\ data_cache = EmptyCache
    /\ now = 0
    /\ ret = NotCalled
    /\ series = <<>>
    /\ roll = NoRoll
    /\ last_call = NoCall
    /\ threads = NoThreads
    /\ collector = NoCollector

NextHist == LoadHistoricalData

SpecHist == InitHist /\ [][NextHist]_vars

\* C1: the series returned by load_historical_data has strictly increasing
\* timestamps and, for each timestamp that occurs more than once in the input,
\* holds the values of the row inserted last among those duplicates.
C1_LastWriteWins ==
    (hret.called /\ hret.from = "files") =>
        LET inserted == Parsed(Concat(SelectSeq(hist.files, IsCsv)))
            LastAt(t) == CHOOSE i \in 1..Len(inserted) :
                            /\ inserted[i].timestamp = t
                            /\ \A j \in (i + 1)..Len(inserted) : inserted[j].timestamp # t
        IN  /\ \A i, j \in 1..Len(hret.df) :
                  i < j => hret.df[i].timestamp < hret.df[j].timestamp
            /\ \A i \in 1..Len(hret.df) :
                  hret.df[i] = inserted[LastAt(hret.df[i].timestamp)]
            /\ \A i \in 1..Len(inserted) :
                  \E k \in 1..Len(hret.df) : hret.df[k].timestamp = inserted[i].timestamp

----------------------------------------------------------------------------
(* The loaders and the callbacks together, over a few files and directories *)

InHoursRow(minute, current_value) ==
    RawRow(Cell("ok", 1), Cell("ok", minute), Cell("ok", current_value))

LoaderFiles ==
    {NoFile,
     File(<<>>),
     File(<<InHoursRow(MarketOpen, 1)>>),
     File(<<InHoursRow(MarketOpen, 1), InHoursRow(MarketClose, 2)>>)}

\* 09:30 of the day the clock starts in, and of the day before
TodayOpen == Cell("ok", MarketOpen)
YesterdayOpen == Cell("ok", MarketOpen - MinutesPerDay)

LoaderDirs ==
    {NoDir,
     Dir(<<>>),
     Dir(<<HistFile("README", <<>>)>>),
     Dir(<<HistFile("sox_index_old.csv", <<HistRow(YesterdayOpen, 100)>>)>>),
     Dir(<<HistFile("sox_index_old.csv", <<HistRow(YesterdayOpen, 100)>>),
           HistFile(TodayCsv, <<HistRow(TodayOpen, 105), HistRow(TodayOpen, 100)>>)>>),
     Dir(<<HistFile(TodayCsv, <<HistRow(Cell("bad", 0), 100)>>)>>)}

\* the dashboard, app.py and daily_report.py are separate programs: each is run
\* over its inputs while the source of the other is absent
InitLoaders ==
    /\ \E run \in {<<f, NoDir>> : f \in LoaderFiles} \cup {<<NoFile, d>> : d \in LoaderDirs} :
          csv = run[1] /\ hist = run[2]
    /\ data_cache = EmptyCache
    /\ now = 0
    /\ ret = NotCalled
    /\ hret = NotCalled
    /\ page = NoPage
    /\ report_log = <<>>
    /\ chart = NoChart
    /\ persisted = <<>>
    /\ tick = NoTick
    /\ series = <<>>
    /\ roll = NoRoll
    /\ last_call = NoCall
    /\ threads = NoThreads
    /\ collector = NoCollector

NextLoaders ==
    \/ \E force_reload \in BOOLEAN : LoadData(force_reload)
    \/ Tick
    \/ RemoveFile
    \/ UpdateMetrics
    \/ UpdateChartContent
    \/ LoadHistoricalData
    \/ UpdateDashboard
    \/ LoadTodayData
    \/ DailyReportMain

SpecLoaders == InitLoaders /\ [][NextLoaders]_vars

\* what the callbacks show when there is no data
NoDataOutputs ==
    {<<"N/A">>, <<"No data available">>, <<"N/A", "N/A">>, <<"No data available for today.">>}

----------------------------------------------------------------------------
(* filter_data_by_period alone: frames load_data computes from short files   *)
(* whose samples lie in each of the period windows, and long frames of stale *)
(* samples, filtered at noon of day 400                                      *)

FilterNow == 400 * MinutesPerDay + 12 * 60

\* today 09:30, yesterday 16:00, and 09:30 of 5, 20, 80, 300 and 399 days ago
FilterStamps ==
    {<<400, 570>>, <<399, 960>>, <<395, 570>>, <<380, 570>>, <<320, 570>>, <<100, 570>>,
     <<1, 570>>}

FilterRows ==
    {RawRow(Cell("ok", s[1]), Cell("ok", s[2]), Cell("ok", 1)) : s \in FilterStamps}
        \cup {RawRow(Cell("ok", s[1]), Cell("ok", s[2]), Cell("ok", 2)) :
                 s \in {<<400, 570>>, <<399, 960>>}}

MaxStale == 101

\* one sample a day at 09:30 on the days 1..len, all of the same price
StaleRows(len) == [i \in 1..len |-> RawRow(Cell("ok", i), Cell("ok", MarketOpen), Cell("ok", 1))]

FilterFrames ==
    {Annotate(Ingest(rows)) : rows \in SeqsUpTo(FilterRows, MaxRows)}
        \cup {Annotate(Ingest(StaleRows(len))) : len \in {MaxStale - 2, MaxStale - 1, MaxStale}}

InitFilter ==
    /\ chart \in {[op |-> "filter", df |-> df, arg |-> period, current_time |-> FilterNow,
                   done |-> FALSE, out |-> <<>>] : df \in FilterFrames, period \in Periods}
    /\ csv = NoFile
    /\ data_cache = EmptyCache
    /\ now = 0
    /\ ret = NotCalled
    /\ hist = NoDir
    /\ hret = NotCalled
    /\ page = NoPage
    /\ report_log = <<>>
    /\ persisted = <<>>
    /\ tick = NoTick
    /\ series = <<>>
    /\ roll = NoRoll
    /\ last_call = NoCall
    /\ threads = NoThreads
    /\ collector = NoCollector

NextFilter == FilterData

SpecFilter == InitFilter /\ [][NextFilter]_vars

Filtered == chart.op = "filter" /\ chart.done

\* the window of a period as the claims state it
StatedDays(period) ==
    CASE period = "1D" -> 1
      [] period = "1W" -> 7
      [] period = "1M" -> 30
      [] period = "3M" -> 90
      [] period = "1Y" -> 365

InStatedWindow(row, period, current_time) ==
    CASE period = "Today" -> DateOf(row.datetime) = DateOf(current_time)
      [] period = "All" -> TRUE
      [] OTHER -> row.datetime >= current_time - StatedDays(period) * MinutesPerDay

\* C11: for every period and every non-empty series of length L in which no
\* sample falls inside the window of the period, filter_data_by_period returns
\* the last min(100, L) samples, never an empty sequence.
C11_PeriodFallback ==
    LET df == chart.df
        len == IF Len(df) < 100 THEN Len(df) ELSE 100
    IN  (/\ Filtered
         /\ df # <<>>
         /\ \A i \in 1..Len(df) : ~InStatedWindow(df[i], chart.arg, chart.current_time))
            => /\ chart.out # <<>>
               /\ chart.out = SubSeq(df, Len(df) - len + 1, Len(df))

\* C12: when at least one sample lies in the window of the period, the result
\* is exactly the samples of the window: timestamp >= now - d with d = 1, 7, 30,
\* 90, 365 days for 1D, 1W, 1M, 3M, 1Y; the samples of the current date for
\* Today; the whole series for All.
C12_PeriodWindows ==
    LET df == chart.df
        Stated(row) == InStatedWindow(row, chart.arg, chart.current_time)
    IN  (Filtered /\ \E i \in 1..Len(df) : Stated(df[i]))
            => chart.out = SelectSeq(df, Stated)

\* the position after the first row of b[j..] equal to row; Len(b) + 2 when
\* no such row exists
NextMatch(row, b, j) ==
    LET found == {p \in j..Len(b) : b[p] = row}
    IN  IF found = {} THEN Len(b) + 2
        ELSE (CHOOSE p \in found : \A q \in found : p <= q) + 1

\* the position in b after a[lo..hi] has been matched, in order and each row
\* as early as possible, to equal rows of b[j..]; Len(b) + 2 when it cannot
RECURSIVE MatchRange(_, _, _, _, _)
MatchRange(a, b, lo, hi, j) ==
    IF lo = hi THEN NextMatch(a[lo], b, j)
    ELSE LET mid == (lo + hi) \div 2
             reached == MatchRange(a, b, lo, mid, j)
         IN  IF reached > Len(b) + 1 THEN reached
             ELSE MatchRange(a, b, mid + 1, hi, reached)

\* a[i..] can be matched, in order, to equal rows of b[j..]
IsSubsequenceFrom(a, b, i, j) ==
    i > Len(a) \/ MatchRange(a, b, i, Len(a), j) <= Len(b) + 1

\* C13: the result of filter_data_by_period is a subsequence of its input, in
\* the same order, and each retained row has every field and indicator value
\* it had in the input.
C13_FilterIsSubsequence ==
    Filtered => IsSubsequenceFrom(chart.out, chart.df, 1, 1)

C13_Witness ==
    /\ Filtered
    /\ chart.out # <<>>
    /\ Len(chart.out) < Len(chart.df)
    /\ chart.out[1].ema12 # Flt(chart.out[1].current_value)

----------------------------------------------------------------------------
(* resample_data alone: frames load_data computes from files whose samples   *)
(* share a bucket, lie in neighbouring buckets, or lie a night or a weekend  *)
(* apart                                                                     *)

\* 09:30, 09:35, 09:50 and 10:30 of day 1, 09:30 of day 2 and of day 4
ResampleStamps ==
    {<<1, 570>>, <<1, 575>>, <<1, 590>>, <<1, 630>>, <<2, 570>>, <<4, 570>>}

ResampleRows ==
    {RawRow(Cell("ok", s[1]), Cell("ok", s[2]), Cell("ok", 1)) : s \in ResampleStamps}
        \cup {RawRow(Cell("ok", s[1]), Cell("ok", s[2]), Cell("ok", 2)) :
                 s \in {<<1, 575>>, <<1, 590>>}}

ResampleFrames == {Annotate(Ingest(rows)) : rows \in SeqsUpTo(ResampleRows, MaxRows)}

InitResample ==
    /\ chart \in {[op |-> "resample", df |-> df, arg |-> interval, current_time |-> 0,
                   done |-> FALSE, out |-> <<>>] : df \in ResampleFrames, interval \in Intervals}
    /\ csv = NoFile
    /\ data_cache = EmptyCache
    /\ now = 0
    /\ ret = NotCalled
    /\ hist = NoDir
    /\ hret = NotCalled
    /\ page = NoPage
    /\ report_log = <<>>
    /\ persisted = <<>>
    /\ tick = NoTick
    /\ series = <<>>
    /\ roll = NoRoll
    /\ last_call = NoCall
    /\ threads = NoThreads
    /\ collector = NoCollector

NextResample == Resample

SpecResample == InitResample /\ [][NextResample]_vars

\* C14: resample_data at the native granularity '5min' returns the rows of its
\* input, with the same values, in the same order.
C14_NativeResampleIsIdentity ==
    (chart.op = "resample" /\ chart.done /\ chart.arg = "5min") => chart.out = chart.df

C14_Witness ==
    /\ chart.op = "resample" /\ chart.done /\ chart.arg = "5min"
    /\ Len(chart.df) >= 2
    /\ chart.df[1].datetime > chart.df[2].datetime
    /\ chart.out = chart.df

\* a call at one of the coarser granularities on a frame that is not empty
Coarser ==
    /\ chart.op = "resample" /\ chart.done
    /\ chart.arg \in {"15min", "30min", "1hour", "1day"}
    /\ chart.df # <<>>

StatedWidth(interval) ==
    CASE interval = "15min" -> 15
      [] interval = "30min" -> 30
      [] interval = "1hour" -> 60
      [] interval = "1day" -> 24 * 60

\* the positions of the input samples that fall into the bucket of output row k
SamplesOfBucket(k) ==
    {i \in 1..Len(chart.df) :
        /\ chart.out[k].datetime <= chart.df[i].datetime
        /\ chart.df[i].datetime < chart.out[k].datetime + StatedWidth(chart.arg)}

\* i comes before j in time (in row order when the timestamps are equal)
Before(i, j) ==
    \/ chart.df[i].datetime < chart.df[j].datetime
    \/ (chart.df[i].datetime = chart.df[j].datetime /\ i <= j)

FirstSample(S) == CHOOSE i \in S : \A j \in S : Before(i, j)
LastSample(S) == CHOOSE i \in S : \A j \in S : Before(j, i)

\* C15: at 15min, 30min, 1hour and 1day every input sample lies in exactly one
\* bucket, the buckets start at multiples of their width counted from midnight,
\* and each output row holds open = first, high = maximum, low = minimum,
\* close = last current_value of the samples of its bucket, so that
\* low <= open <= high and low <= close <= high.
C15_BucketsAndOhlc ==
    Coarser =>
        /\ \A i \in 1..Len(chart.df) :
              Cardinality({k \in 1..Len(chart.out) : i \in SamplesOfBucket(k)}) = 1
        /\ \A k \in 1..Len(chart.out) :
              LET row == chart.out[k]
                  S == SamplesOfBucket(k)
              IN  /\ row.datetime % StatedWidth(chart.arg) = 0
                  /\ S # {}
                  /\ row.open_value = Flt(chart.df[FirstSample(S)].current_value)
                  /\ row.current_value = Flt(chart.df[LastSample(S)].current_value)
                  /\ \A i \in S : FLe(Flt(chart.df[i].current_value), row.day_high)
                  /\ \A i \in S : FLe(row.day_low, Flt(chart.df[i].current_value))
                  /\ \E i \in S : row.day_high = Flt(chart.df[i].current_value)
                  /\ \E i \in S : row.day_low = Flt(chart.df[i].current_value)
                  /\ FLe(row.day_low, row.open_value) /\ FLe(row.open_value, row.day_high)
                  /\ FLe(row.day_low, row.current_value) /\ FLe(row.current_value, row.day_high)

\* C16: the output has one row for each bucket that holds an input sample and
\* no row for a bucket without samples, also when empty buckets lie between
\* the first and the last sample; no row has an undefined open, high, low or close.
C16_EmptyBucketsOmitted ==
    Coarser =>
        /\ \A i \in 1..Len(chart.df) : \E k \in 1..Len(chart.out) : i \in SamplesOfBucket(k)
        /\ \A k \in 1..Len(chart.out) :
              /\ SamplesOfBucket(k) # {}
              /\ IsNum(chart.out[k].open_value) /\ IsNum(chart.out[k].day_high)
              /\ IsNum(chart.out[k].day_low) /\ IsNum(chart.out[k].current_value)
        /\ \A k, h \in 1..Len(chart.out) : k < h => chart.out[k].datetime < chart.out[h].datetime

IndicatorColumns ==
    {"ma20", "ma50", "ma200", "rolling_std", "upper_band", "lower_band", "rsi", "ema12",
     "ema26", "macd", "macd_signal", "macd_hist", "day_open", "daily_return"}

\* C17: every indicator column of the input is a column of the output, and its
\* value in an output row is the value of the column at the last sample of the
\* bucket of the row, undefined when that value is undefined.
C17_IndicatorsCarryLast ==
    Coarser =>
        \A k \in 1..Len(chart.out) :
            SamplesOfBucket(k) # {} =>
                \A c \in IndicatorColumns \cap DOMAIN chart.df[1] :
                    /\ c \in DOMAIN chart.out[k]
                    /\ chart.out[k][c] = chart.df[LastSample(SamplesOfBucket(k))][c]

----------------------------------------------------------------------------
(* The dashboard while the collector appends to its file *)

\* the row the collector appends: 09:35 of day 1
CollectedRows == {InHoursRow(MarketOpen + 5, 2)}

InitRefresh ==
    /\ csv \in LoaderFiles
    /\ hist = NoDir
    /\ data_cache = EmptyCache
    /\ now = 0
    /\ ret = NotCalled
    /\ hret = NotCalled
    /\ page = NoPage
    /\ report_log = <<>>
    /\ chart = NoChart
    /\ persisted = <<>>
    /\ tick = NoTick
    /\ series = <<>>
    /\ roll = NoRoll
    /\ last_call = NoCall
    /\ threads = NoThreads
    /\ collector = NoCollector

NextRefresh ==
    \/ \E force_reload \in BOOLEAN : LoadData(force_reload)
    \/ Tick
    \/ \E data \in CollectedRows : SaveToCsv(data)
    \/ UpdateMetrics
    \/ UpdateChartContent

SpecRefresh == InitRefresh /\ [][NextRefresh]_vars

\* C18: a load_data call on a file that holds what it held when the cache was
\* written returns the series the indicator computation yields on that file,
\* whatever chart callbacks ran since: same rows, same columns, same values.
C18_ReloadIsIdentical ==
    (ret.called /\ ret.from \in {"file", "cache"} /\ csv.exists /\ csv.rows = persisted)
        => ret.df = Annotate(Ingest(csv.rows))

\* C19: no callback raises when the loaded series has no row or one row.
C19_NoRaiseOnSmallSeries ==
    (page.callback # "none" /\ ret.called /\ Len(ret.df) <= 1)
        => page.out \notin {<<"IndexError">>, <<"raise">>}

\* the series a tick showed holds every valid row of rows
ShowsEvery(rows) ==
    LET valid == WellFormedSamples(rows)
        shown == SamplesOf(tick.shown)
    IN  \A i \in 1..Len(valid) : \E j \in 1..Len(shown) : shown[j] = valid[i]

C22_CachedSeriesUnchanged ==
    data_cache.df.some => data_cache.df.val = Annotate(Ingest(persisted))

----------------------------------------------------------------------------
(* load_data under concurrent calls: two server threads, the clock, and the  *)
(* collector appending rows to the file                                      *)

InitThreads ==
    /\ csv \in {NoFile, File(<<InHoursRow(MarketOpen, 1)>>)}
    /\ data_cache = EmptyCache
    /\ now = 0
    /\ ret = NotCalled
    /\ hist = NoDir
    /\ hret = NotCalled
    /\ page = NoPage
    /\ report_log = <<>>
    /\ chart = NoChart
    /\ persisted = <<>>
    /\ tick = NoTick
    /\ series = <<>>
    /\ roll = NoRoll
    /\ last_call = NoCall
    /\ threads = NoThreads
    /\ collector = NoCollector

NextThreads ==
    \/ \E t \in Threads, force_reload \in BOOLEAN : StartLoad(t, force_reload)
    \/ \E t \in Threads : TestCache(t)
    \/ \E t \in Threads : ReturnCached(t)
    \/ \E t \in Threads : ReadFile(t)
    \/ \E t \in Threads : StoreDf(t)
    \/ \E t \in Threads : StoreTime(t)
    \/ Tick
    \/ \E data \in CollectedRows : SaveToCsv(data)

SpecThreads == InitThreads /\ [][NextThreads]_vars

\* the pair a reload in progress in thread u stores
PairAfter(u) ==
    [df |-> Some(threads[u].df), last_load_time |-> Some(threads[u].current_time)]

\* C21: whenever a load_data call is about to read the cache while another
\* call is replacing it, the pair (df, last_load_time) it finds is the pair
\* from before that reload or the pair that reload stores, never a mix.
C21_CacheSwapsWhole ==
    \A t \in Threads, u \in Threads :
        (t # u /\ threads[t].pc \in {"test", "hit"} /\ threads[u].pc = "store_time")
            => data_cache \in {threads[u].before, PairAfter(u)}

----------------------------------------------------------------------------
(* The collector: runs of main at the edges of the trading day, on a Friday, *)
(* a Saturday and a Sunday, on the outputs the scraper can hand over         *)

Days == {5, 6, 7}

CollectorSeconds ==
    {MarketOpen * SecondsPerMinute - 1,      \* 09:29:59
     MarketOpen * SecondsPerMinute,          \* 09:30:00
     MarketClose * SecondsPerMinute,         \* 16:00:00
     MarketClose * SecondsPerMinute + 1}     \* 16:00:01

\* what 'Latest Trade: ([0-9,.]+) USD' can capture
LatestTexts == {<<"1", ",", "2", ".", "5">>, <<".">>}

\* what 'Change: ([^(]+)' can capture
ChangeTexts == {<<"1">>, <<"x">>}

Outputs ==
    {NoOutput, EmptyOutput} \cup
    {Output(latest, change) :
        latest \in {None(<<>>)} \cup {Some(text) : text \in LatestTexts},
        change \in {None(<<>>)} \cup {Some(text) : text \in ChangeTexts}}

InitCollector ==
    /\ csv \in {NoFile, File(<<InHoursRow(MarketOpen, 1)>>)}
    /\ data_cache = EmptyCache
    /\ now = 0
    /\ ret = NotCalled
    /\ hist = NoDir
    /\ hret = NotCalled
    /\ page = NoPage
    /\ report_log = <<>>
    /\ chart = NoChart
    /\ persisted = <<>>
    /\ tick = NoTick
    /\ series = <<>>
    /\ roll = NoRoll
    /\ last_call = NoCall
    /\ threads = NoThreads
    /\ collector = NoCollector

NextCollector ==
    \E day \in Days, second \in CollectorSeconds, output \in Outputs : Main(day, second, output)

SpecCollector == InitCollector /\ [][NextCollector]_vars

\* Monday to Friday, from 09:30:00 to 16:00:00, both included
StatedOpen ==
    /\ (collector.day - 1) % 7 \in 0..4
    /\ 9 * SecondsPerHour + 30 * SecondsPerMinute <= collector.second
    /\ collector.second <= 16 * SecondsPerHour

\* C23: main runs the scraper and appends a row only on Monday to Friday
\* between 09:30 and 16:00 US/Eastern, both ends included; when the market is
\* closed it returns and the file is what it was.
C23_CollectionGated ==
    collector.ran =>
        /\ (collector.scraped \/ csv # collector.before) => StatedOpen
        /\ ~StatedOpen => (collector.result = "closed" /\ csv = collector.before)

\* a row is appended on a Friday at 16:00:00
C23_Witness ==
    /\ collector.ran
    /\ (collector.day - 1) % 7 = 4
    /\ collector.second = 16 * SecondsPerHour
    /\ collector.scraped
    /\ collector.result = "saved"
    /\ csv.rows = Append(collector.before.rows, collector.written[Len(collector.written)])

\* C25: after n >= 1 calls of save_to_csv on a path that did not exist the
\* file is one header and the n rows in call order; a call on an existing
\* file writes no header and leaves the rows already there as they were.
C25_AppendOnlySingleHeader ==
    (collector.ran /\ collector.written # <<>>) =>
        /\ ~collector.origin.exists =>
              csv = [exists |-> TRUE, header |-> TRUE, rows |-> collector.written]
        /\ collector.origin.exists =>
              /\ csv.header = collector.origin.header
              /\ csv.rows = collector.origin.rows \o collector.written

\* two different rows were saved to a path that did not exist
C25_Witness ==
    /\ collector.ran
    /\ ~collector.origin.exists
    /\ Len(collector.written) = 2
    /\ collector.written[1] # collector.written[2]
    /\ csv.header /\ csv.rows = collector.written

\* C27: every row main appends has a current_value; on an output that is
\* empty, None or without a 'Latest Trade' price no row is appended.
C27_RowsHaveCurrentValue ==
    /\ \A i \in 1..Len(collector.written) : collector.written[i].current_value.k = "ok"
    /\ (collector.ran /\ ~collector.output.latest.some) => csv = collector.before

====
